---- MODULE Spec2Model ----
(***************************************************************************)
(* Model of script.js: the SOAP note generator.                            *)
(*   parseCPT   - free-text CPT lines to {code, units, minutes, raw}       *)
(*   buildNote  - totals, ICD-10 list and the note text                    *)
(*   handlers   - the Generate, Print and Clear buttons of the form         *)
(* Text is a sequence of one-character strings, so that the regular        *)
(* expressions, trim, split and join act on characters as in the script.   *)
(***************************************************************************)
EXTENDS Integers, Sequences, FiniteSets

VARIABLES els, output, summary, ret, lastOp, edits

vars == <<els, output, summary, ret, lastOp, edits>>

(***************************************************************************)
(* Characters                                                              *)
(***************************************************************************)
Digits == {"0", "1", "2", "3", "4", "5", "6", "7", "8", "9"}

\* what \s and String.prototype.trim treat as white space (those that occur here)
WhiteSpace == {" ", "\t", "\n", "\r"}

LineTerminators == {"\n", "\r"}

\* the two cases of an ASCII letter of a pattern under the /i flag
BothCases(c) ==
    CASE c = "u" -> {"u", "U"}
      [] c = "n" -> {"n", "N"}
      [] c = "i" -> {"i", "I"}
      [] c = "t" -> {"t", "T"}
      [] c = "s" -> {"s", "S"}
      [] c = "m" -> {"m", "M"}
      [] c = "x" -> {"x", "X"}
      [] OTHER -> {c}

DigitChar == <<"0", "1", "2", "3", "4", "5", "6", "7", "8", "9">>

DigitVal(c) == (CHOOSE k \in 1..10 : DigitChar[k] = c) - 1

\* parseInt(ds, 10) and Number(ds) on a string of decimal digits
RECURSIVE ParseInt(_)
ParseInt(ds) ==
    IF ds = <<>> THEN 0
    ELSE 10 * ParseInt(SubSeq(ds, 1, Len(ds) - 1)) + DigitVal(ds[Len(ds)])

\* the decimal text a template literal or an input's value gets for a number n >= 0
RECURSIVE NumToString(_)
NumToString(n) ==
    IF n < 10 THEN <<DigitChar[n + 1]>>
    ELSE NumToString(n \div 10) \o <<DigitChar[(n % 10) + 1]>>

(***************************************************************************)
(* String helpers of the script                                            *)
(***************************************************************************)
RECURSIVE TrimStart(_)
TrimStart(s) ==
    IF s # <<>> /\ Head(s) \in WhiteSpace THEN TrimStart(Tail(s)) ELSE s

RECURSIVE TrimEnd(_)
TrimEnd(s) ==
    IF s # <<>> /\ s[Len(s)] \in WhiteSpace
    THEN TrimEnd(SubSeq(s, 1, Len(s) - 1)) ELSE s

Trim(s) == TrimEnd(TrimStart(s))

\* Array.prototype.filter(Boolean) on strings: the empty string is falsy
RECURSIVE FilterNonEmpty(_)
FilterNonEmpty(ss) ==
    IF ss = <<>> THEN <<>>
    ELSE (IF Head(ss) = <<>> THEN <<>> ELSE <<Head(ss)>>) \o FilterNonEmpty(Tail(ss))

MapTrim(ss) == [k \in 1..Len(ss) |-> Trim(ss[k])]

\* Array.prototype.join(sep)
RECURSIVE Join(_, _)
Join(ss, sep) ==
    IF ss = <<>> THEN <<>>
    ELSE IF Len(ss) = 1 THEN ss[1]
    ELSE ss[1] \o sep \o Join(Tail(ss), sep)

\* text.split(/\r?\n/): cut at every "\n", dropping a "\r" right before it
RECURSIVE SplitLinesAcc(_, _)
SplitLinesAcc(text, cur) ==
    IF text = <<>> THEN <<cur>>
    ELSE IF Head(text) = "\n"
         THEN <<cur>> \o SplitLinesAcc(Tail(text), <<>>)
    ELSE IF Head(text) = "\r" /\ Len(text) >= 2 /\ text[2] = "\n"
         THEN <<cur>> \o SplitLinesAcc(Tail(Tail(text)), <<>>)
    ELSE SplitLinesAcc(Tail(text), cur \o <<Head(text)>>)

SplitLines(text) == SplitLinesAcc(text, <<>>)

IcdSeparators == {"\n", ","}

\* icd.split(/[\n,]+/): cut at every maximal run of separators
RECURSIVE SplitRunsAcc(_, _, _)
SplitRunsAcc(text, seps, cur) ==
    IF text = <<>> THEN <<cur>>
    ELSE IF Head(text) \in seps
         THEN IF Len(text) >= 2 /\ text[2] \in seps
              THEN SplitRunsAcc(Tail(text), seps, cur)
              ELSE <<cur>> \o SplitRunsAcc(Tail(text), seps, <<>>)
    ELSE SplitRunsAcc(Tail(text), seps, cur \o <<Head(text)>>)

SplitRuns(text, seps) == SplitRunsAcc(text, seps, <<>>)

(***************************************************************************)
(* Regular expressions: a pattern is a sequence of items, each a character *)
(* set (or, with neg, its complement) with a greedy repetition range       *)
(* (max = -1: unbounded).  Matching is the backtracking search of          *)
(* RegExp.prototype.exec: leftmost start, and at each item the longest     *)
(* repetition that lets the rest match.                                    *)
(***************************************************************************)
Rep(set, lo, hi) == [set |-> set, neg |-> FALSE, min |-> lo, max |-> hi]
One(set) == Rep(set, 1, 1)
Opt(set) == Rep(set, 0, 1)
Star(set) == Rep(set, 0, -1)
Plus(set) == Rep(set, 1, -1)

\* .* : any run of characters other than line terminators
DotStar == [set |-> LineTerminators, neg |-> TRUE, min |-> 0, max |-> -1]

Accepts(item, ch) == (ch \in item.set) = ~item.neg

NoMatch == <<-1>>

\* how many characters from pos on the item accepts, at most cap of them
RECURSIVE Run(_, _, _, _)
Run(s, pos, item, cap) ==
    IF pos > Len(s) \/ cap = 0 \/ ~Accepts(item, s[pos]) THEN 0
    ELSE 1 + Run(s, pos + 1, item, cap - 1)

\* the item matched n times and the rest matched as `rest`; else backtrack
Matched(n, rest, backtrack) ==
    IF rest # NoMatch THEN <<n>> \o rest ELSE backtrack

RECURSIVE MatchItems(_, _, _, _), TryCount(_, _, _, _, _)
TryCount(re, k, s, pos, n) ==
    IF n < re[k].min THEN NoMatch
    ELSE Matched(n, MatchItems(re, k + 1, s, pos + n),
                 TryCount(re, k, s, pos, n - 1))

MatchItems(re, k, s, pos) ==
    IF k > Len(re) THEN <<>>
    ELSE TryCount(re, k, s, pos, Run(s, pos, re[k], re[k].max))

\* a match that starts at `start`, else the search goes on to the right
Found(start, r, next) ==
    IF r # NoMatch THEN <<start>> \o r ELSE next

\* <<>> for null, else <<start, length of item 1, ..., length of item n>>
RECURSIVE ExecFrom(_, _, _)
ExecFrom(re, s, start) ==
    IF start > Len(s) + 1 THEN <<>>
    ELSE Found(start, MatchItems(re, 1, s, start), ExecFrom(re, s, start + 1))

RegExec(re, s) == ExecFrom(re, s, 1)

RECURSIVE SumTo(_, _)
SumTo(m, k) == IF k <= 1 THEN 0 ELSE m[k] + SumTo(m, k - 1)

\* the text item k of the pattern matched (a capture group around one item)
Group(s, m, k) ==
    LET from == m[1] + SumTo(m, k)
    IN  SubSeq(s, from, from + m[k + 1] - 1)

(***************************************************************************)
(* parseCPT                                                                *)
(***************************************************************************)
UnitMinutes == 15

\* Pattern1 with any text allowed between the code and the marker
Pattern1AnyGap ==
    <<Rep(Digits, 5, 5), DotStar, One({"x", "X", "×"}),
      Star(WhiteSpace), Plus(Digits)>>

\* /(\d{5})\s*[x×]\s*(\d+)/i
Pattern1 ==
    <<Rep(Digits, 5, 5), Star(WhiteSpace), One({"x", "X", "×"}),
      Star(WhiteSpace), Plus(Digits)>>

\* /(\d{5}).*units?\s*[:=]?\s*(\d+)/i
Pattern2 ==
    <<Rep(Digits, 5, 5), DotStar,
      One(BothCases("u")), One(BothCases("n")), One(BothCases("i")),
      One(BothCases("t")), Opt(BothCases("s")),
      Star(WhiteSpace), Opt({":", "="}), Star(WhiteSpace), Plus(Digits)>>

\* /(\d{5}).*\(?\s*(\d{1,3})\s*min\s*\)?/i
Pattern3 ==
    <<Rep(Digits, 5, 5), DotStar, Opt({"("}), Star(WhiteSpace),
      Rep(Digits, 1, 3), Star(WhiteSpace),
      One(BothCases("m")), One(BothCases("i")), One(BothCases("n")),
      Star(WhiteSpace), Opt({")"})>>

\* /(\d{5})/
Pattern4 == <<Rep(Digits, 5, 5)>>

\* Math.ceil(minutes / 15) for an integer minutes >= 0
CeilDiv(a, b) == IF a % b = 0 THEN a \div b ELSE (a \div b) + 1

Entry(code, units, minutes, raw) ==
    [code |-> code, units |-> units, minutes |-> minutes, raw |-> raw]

\* lines 22-24 and 31-33: the number captured is the unit count
UnitsEntry(code, units, raw) == Entry(code, units, units * UnitMinutes, raw)

\* lines 40-43: the number captured is minutes, rounded up to whole units
MinutesEntry(code, minutes, raw) ==
    UnitsEntry(code, CeilDiv(minutes, UnitMinutes), raw)

\* the body of the for loop, given what the four patterns matched
EntryOf(raw, m1, m2, m3, m4) ==
    IF m1 # <<>>
    THEN UnitsEntry(Group(raw, m1, 1), ParseInt(Group(raw, m1, 5)), raw)
    ELSE IF m2 # <<>>
    THEN UnitsEntry(Group(raw, m2, 1), ParseInt(Group(raw, m2, 11)), raw)
    ELSE IF m3 # <<>>
    THEN MinutesEntry(Group(raw, m3, 1), ParseInt(Group(raw, m3, 5)), raw)
    ELSE IF m4 # <<>>
    THEN Entry(Group(raw, m4, 1), 1, UnitMinutes, raw)
    ELSE Entry(raw, 0, 0, raw)

\* one pass of the for loop of parseCPT
ParseLine(raw) ==
    EntryOf(raw, RegExec(Pattern1, raw), RegExec(Pattern2, raw),
            RegExec(Pattern3, raw), RegExec(Pattern4, raw))

\* CptLines without .filter(Boolean)
CptLinesUnfiltered(text) == MapTrim(SplitLines(text))

CptLines(text) == FilterNonEmpty(MapTrim(SplitLines(text)))

ParseLines(lines) == [k \in 1..Len(lines) |-> ParseLine(lines[k])]

parseCPT(text) == ParseLines(CptLines(text))

(***************************************************************************)
(* buildNote                                                               *)
(***************************************************************************)
RECURSIVE SumMinutes(_)
SumMinutes(entries) ==
    IF entries = <<>> THEN 0
    ELSE Head(entries).minutes + SumMinutes(Tail(entries))

\* Number(duration) for the value of the duration input (decimal digits)
Number(str) == ParseInt(str)

\* lines 73-75: the sum, or the documented duration when the sum is 0
\* FallbackTotal without the test that the sum is 0
FallbackWhenSupplied(sum, duration) ==
    IF duration # <<>> THEN Number(duration) ELSE sum

FallbackTotal(sum, duration) ==
    IF sum = 0 /\ duration # <<>> THEN Number(duration) ELSE sum

TotalMinutes(entries, duration) == FallbackTotal(SumMinutes(entries), duration)

\* TotalUnits as floor + 1 instead of the ceiling
TotalUnitsInflated(totalMinutes) == (totalMinutes \div UnitMinutes) + 1

\* line 77
TotalUnits(totalMinutes) == CeilDiv(totalMinutes, UnitMinutes)

\* a || b on strings
OrElse(a, b) == IF a # <<>> THEN a ELSE b

Underscores(n) == [k \in 1..n |-> "_"]

DatePlaceholder == <<"_", "_", "_", "_", "/", "_", "_", "/", "_", "_">>

\* lines 80-83
CptSummaryLine(e) ==
    IF e.units > 0
    THEN e.code \o <<" ", "x", " ">> \o NumToString(e.units)
         \o <<" ", "u", "n", "i", "t", "(", "s", ")", " ", "(">>
         \o NumToString(e.minutes) \o <<" ", "m", "i", "n", ")">>
    ELSE e.raw \o <<" ", "(", "u", "n", "p", "a", "r", "s", "e", "d", ")">>

CptSummaryLines(entries) == [k \in 1..Len(entries) |-> CptSummaryLine(entries[k])]

\* IcdPretty without .map(s=>s.trim())
IcdPrettyUntrimmed(icd) ==
    Join(FilterNonEmpty(SplitRuns(icd, IcdSeparators)), <<",", " ">>)

\* line 85
IcdPretty(icd) ==
    Join(FilterNonEmpty(MapTrim(SplitRuns(icd, IcdSeparators))), <<",", " ">>)

\* A text built by a template literal: its pieces in order, each a literal
\* part of the template followed by the substituted value.
Piece(lit, sub) == [lit |-> lit, sub |-> sub]

\* lines 88-114 (the dash of the section headings is written "--")
NoteText(fields, icdPretty, lines, totalMinutes, totalUnits) ==
    << Piece("Pediatric Occupational Therapy SOAP Note\nChild: ",
             OrElse(fields.childName, Underscores(16))),
       Piece("\nDate: ", OrElse(fields.date, DatePlaceholder)),
       Piece("\nTherapist: ", OrElse(fields.therapist, Underscores(16))),
       Piece("\nSession Duration (documented): ",
             OrElse(fields.duration, Underscores(5))),
       Piece(" min\n\nICD-10 Codes:\n", OrElse(icdPretty, Underscores(16))),
       Piece("\n\nCPT Codes (calculated):\n",
             IF Len(lines) # 0 THEN Join(lines, <<"\n">>) ELSE Underscores(16)),
       Piece("\nTotal billed time (calculated): ", NumToString(totalMinutes)),
       Piece(" min (", NumToString(totalUnits)),
       Piece(" unit(s) x 15 min)\n\nS -- Subjective:\n",
             OrElse(fields.S, Underscores(16))),
       Piece("\n\nO -- Objective:\n", OrElse(fields.O, Underscores(16))),
       Piece("\n\nA -- Assessment:\n", OrElse(fields.A, Underscores(16))),
       Piece("\n\nP -- Plan:\n", OrElse(fields.P, Underscores(16))),
       Piece("\n\nTherapist Signature: _________________________      Date: ",
             OrElse(fields.date, DatePlaceholder)) >>

\* line 116, given the values of the locals
NoteResult(fields, cptEntries, totalMinutes, totalUnits, icdPretty) ==
    [note |-> NoteText(fields, icdPretty, CptSummaryLines(cptEntries),
                       totalMinutes, totalUnits),
     cptEntries |-> cptEntries,
     totalMinutes |-> totalMinutes,
     totalUnits |-> totalUnits,
     icdPretty |-> icdPretty]

NoteWithTotal(fields, cptEntries, totalMinutes) ==
    NoteResult(fields, cptEntries, totalMinutes, TotalUnits(totalMinutes),
               IcdPretty(fields.icd))

NoteWithEntries(fields, cptEntries) ==
    NoteWithTotal(fields, cptEntries, TotalMinutes(cptEntries, fields.duration))

buildNote(fields) == NoteWithEntries(fields, parseCPT(fields.cptRaw))

(***************************************************************************)
(* The form and its handlers                                               *)
(***************************************************************************)
TrimmedFields == {"childName", "therapist", "icd", "cpt",
                  "subjective", "objective", "assessment", "plan"}

InputFields == TrimmedFields \cup {"date", "duration"}

gatherFields(e) ==
    [childName |-> Trim(e.childName),
     date |-> e.date,
     therapist |-> Trim(e.therapist),
     duration |-> e.duration,
     icd |-> Trim(e.icd),
     cptRaw |-> Trim(e.cpt),
     S |-> Trim(e.subjective),
     O |-> Trim(e.objective),
     A |-> Trim(e.assessment),
     P |-> Trim(e.plan)]

\* line 162
RECURSIVE ParsedCount(_)
ParsedCount(entries) ==
    IF entries = <<>> THEN 0
    ELSE (IF Head(entries).units > 0 \/ Head(entries).minutes > 0 THEN 1 ELSE 0)
         + ParsedCount(Tail(entries))

\* line 163
SummaryText(entries, totalMinutes, totalUnits) ==
    << Piece("CPT entries: ", NumToString(Len(entries))),
       Piece(" (parsed: ", NumToString(ParsedCount(entries))),
       Piece("). Calculated total: ", NumToString(totalMinutes)),
       Piece(" min -- ", NumToString(totalUnits)),
       Piece(" unit(s).", <<>>) >>

\* WritesDuration without the test of the duration field
WritesWheneverTotal(fields, totalMinutes) == totalMinutes # 0

\* line 168: totalMinutes && (!fields.duration || fields.duration == 0)
WritesDuration(fields, totalMinutes) ==
    totalMinutes # 0 /\ (fields.duration = <<>> \/ Number(fields.duration) = 0)

\* lines 160-170, given the fields gathered and what buildNote returned
EffectOf(e, fields, r) ==
    [els |-> IF WritesDuration(fields, r.totalMinutes)
             THEN [e EXCEPT !.duration = NumToString(r.totalMinutes)]
             ELSE e,
     output |-> r.note,
     summary |-> SummaryText(r.cptEntries, r.totalMinutes, r.totalUnits),
     ret |-> <<[fields |-> fields,
                cptEntries |-> r.cptEntries,
                totalMinutes |-> r.totalMinutes,
                totalUnits |-> r.totalUnits,
                icdPretty |-> r.icdPretty]>>]

EffectOn(e, fields) == EffectOf(e, fields, buildNote(fields))

\* what one run of the Generate click handler leaves behind
GenerateEffect(e) == EffectOn(e, gatherFields(e))

\* the handler's writes to the page; ret keeps its locals for inspection
Keep(g) ==
    /\ els' = g.els
    /\ output' = g.output
    /\ summary' = g.summary
    /\ ret' = g.ret

\* !text.trim() for a text in pieces
IsBlank(text) ==
    \A k \in 1..Len(text) : text[k].lit = "" /\ Trim(text[k].sub) = <<>>

\* lastOp names the handler run by the latest step; a Generate click that
\* follows a run of the Generate handler directly is "generate_again"
GenerateOps == {"generate", "generate_again", "print_generate"}

PrintOps == {"print", "print_generate"}

GenerateClick ==
    /\ Keep(GenerateEffect(els))
    /\ lastOp' = IF lastOp \in GenerateOps THEN "generate_again" ELSE "generate"
    /\ UNCHANGED edits

\* PrintClick without the automatic Generate on an empty output
PrintWithoutGenerate ==
    /\ UNCHANGED <<els, output, summary, ret, edits>>
    /\ lastOp' = "print"

\* window.print() is reached at the end of the step
PrintClick ==
    /\ IF IsBlank(output)
       THEN /\ Keep(GenerateEffect(els))
            /\ lastOp' = "print_generate"
       ELSE /\ UNCHANGED <<els, output, summary, ret>>
            /\ lastOp' = "print"
    /\ UNCHANGED edits

ClearedForm ==
    [childName |-> <<>>, date |-> <<>>, therapist |-> <<>>,
     duration |-> <<"4", "5">>, icd |-> <<>>, cpt |-> <<>>,
     subjective |-> <<>>, objective |-> <<>>, assessment |-> <<>>,
     plan |-> <<>>]

ClearClick(confirmed) ==
    /\ IF confirmed
       THEN /\ els' = ClearedForm
            /\ output' = <<>>
            /\ summary' = <<>>
            /\ lastOp' = "clear"
       ELSE /\ UNCHANGED <<els, output, summary>>
            /\ lastOp' = "cancel"
    /\ UNCHANGED <<ret, edits>>

(***************************************************************************)
(* What the clinician can type                                             *)
(***************************************************************************)
MaxEdits == 2
MaxLines == 4
MaxDurDigits == 2
MaxIcdItems == 4

EditValues(f) ==
    CASE f = "cpt" ->
           { <<>>,
             <<"9", "7", "5", "3", "0">>,
             <<"9", "7", "5", "3", "0", " ", "(", "2", "0", " ", "m", "i", "n", ")">>,
             <<"a", "b", "c">> }
      [] f = "duration" ->
           { <<>>,
             <<"0">>,
             <<"2", "0">>,
             <<"4", "5">> }
      [] f = "icd" ->
           { <<>>,
             <<"E", "1", "1", ".", "9", ",", " ", "E", "1", "1", ".", "9", "\n", "F", "8", "0", ".", "1">> }
      [] f = "date" ->
           { <<>>,
             <<"2", "0", "2", "6">> }
      [] OTHER ->
           { <<>>,
             <<" ", "a", " ">> }

Edit(f, v) ==
    /\ edits < MaxEdits
    /\ v # els[f]
    /\ els' = [els EXCEPT ![f] = v]
    /\ edits' = edits + 1
    /\ lastOp' = "edit"
    /\ UNCHANGED <<output, summary, ret>>

\* the page as loaded: nothing typed yet; the duration input is empty or
\* holds the default the Clear button restores
Init ==
    /\ \E d \in {<<>>, ClearedForm.duration} :
          els = [ClearedForm EXCEPT !.duration = d]
    /\ output = <<>>
    /\ summary = <<>>
    /\ ret = <<>>
    /\ lastOp = "load"
    /\ edits = 0

Next ==
    \/ \E f \in InputFields : \E v \in EditValues(f) : Edit(f, v)
    \/ GenerateClick
    \/ PrintClick
    \/ \E confirmed \in BOOLEAN : ClearClick(confirmed)

Spec == Init /\ [][Next]_vars

(***************************************************************************)
(* parseCPT on its own: one Generate click on a form holding a CPT text    *)
(***************************************************************************)
Leads == { <<>>,
      <<"1">>,
      <<"O", "T", " ">> }
Codes == { <<"9", "7", "5", "3", "0">>,
      <<>>,
      <<"9", "7", "5", "3">> }
Gaps == { <<>>,
      <<" ">>,
      <<" ", "O", "T", " ">> }
Keys == { <<>>,
      <<"x">>,
      <<"×", " ">>,
      <<"X">>,
      <<"u", "n", "i", "t", "s", ":">>,
      <<"U", "N", "I", "T", " ">>,
      <<"u", "n", "i", "t", "=">>,
      <<"(">> }
Nums == { <<>>,
      <<"0">>,
      <<"2">>,
      <<"2", "0">>,
      <<"4", "5">>,
      <<"1", "0", "0">> }
Tails == { <<>>,
      <<" ", "m", "i", "n">>,
      <<" ", "M", "I", "N", ")">>,
      <<" ", "u", "n", "i", "t", "s">>,
      <<" ", "9", "7", "1", "1", "2", "X", "3">> }

\* single lines: [lead] [code] [gap] [keyword or marker] [number] [tail]
RichLines ==
    { a \o b \o c \o d \o e \o f :
        a \in Leads, b \in Codes, c \in Gaps, d \in Keys, e \in Nums, f \in Tails }

SampleLines ==
    { <<>>,
      <<" ">>,
      <<"9", "7", "5", "3", "0", "x", "2">>,
      <<"a", " ", "c">>,
      <<" ", "9", "7", "1", "1", "2", "\r">> }

RECURSIVE TextsOfLines(_)
TextsOfLines(n) ==
    IF n = 0 THEN {<<>>}
    ELSE IF n = 1 THEN SampleLines
    ELSE { l \o <<"\n">> \o t : l \in SampleLines, t \in TextsOfLines(n - 1) }

SampleTexts == UNION { TextsOfLines(n) : n \in 0..MaxLines }

FormWith(cpt, duration, icd) ==
    [ClearedForm EXCEPT !.cpt = cpt, !.duration = duration, !.icd = icd]

InitWith(forms) ==
    /\ els \in forms
    /\ output = <<>>
    /\ summary = <<>>
    /\ ret = <<>>
    /\ lastOp = "load"
    /\ edits = 0

InitCpt == InitWith({ FormWith(t, <<>>, <<>>) : t \in RichLines \cup SampleTexts })

NextGenerate == GenerateClick

SpecCpt == InitCpt /\ [][NextGenerate]_vars

(***************************************************************************)
(* The totals on their own: CPT texts of every sum against every duration  *)
(***************************************************************************)
RECURSIVE DigitStrings(_)
DigitStrings(n) ==
    IF n = 0 THEN {<<>>}
    ELSE DigitStrings(n - 1) \cup
         { s \o <<d>> : s \in DigitStrings(n - 1), d \in Digits }

TotalsTexts ==
    { <<>>,
      <<"a", "b", "c">>,
      <<"9", "7", "5", "3", "0">>,
      <<"9", "7", "5", "3", "0", "x", "2">>,
      <<"9", "7", "5", "3", "0", " ", "(", "2", "0", " ", "m", "i", "n", ")">>,
      <<"9", "7", "5", "3", "0", "x", "0", "\n", "9", "7", "1", "1", "2", " ", "x", " ", "1">> }

InitTotals ==
    InitWith({ FormWith(t, d, <<>>) :
                 t \in TotalsTexts, d \in DigitStrings(MaxDurDigits) })

SpecTotals == InitTotals /\ [][NextGenerate]_vars

(***************************************************************************)
(* The ICD-10 list on its own                                              *)
(***************************************************************************)
IcdTokens == { <<"E", "1", "1", ".", "9">>,
      <<"F", "8", "0", ".", "1">>,
      <<",">>,
      <<"\n">>,
      <<" ">> }

RECURSIVE IcdTexts(_)
IcdTexts(n) ==
    IF n = 0 THEN {<<>>}
    ELSE IcdTexts(n - 1) \cup
         { s \o t : s \in IcdTexts(n - 1), t \in IcdTokens }

InitIcd == InitWith({ FormWith(<<>>, <<"4", "5">>, t) : t \in IcdTexts(MaxIcdItems) })

SpecIcd == InitIcd /\ [][NextGenerate]_vars

(***************************************************************************)
(* Vocabulary of the properties: shapes of a line, stated by positions     *)
(***************************************************************************)
AllIn(s, a, b, set) == \A k \in a..b : s[k] \in set

HasCodeAt(s, i) == i >= 1 /\ i + 4 <= Len(s) /\ AllIn(s, i, i + 4, Digits)

HasCode(s) == \E i \in 1..Len(s) : HasCodeAt(s, i)

IsCode(c) == Len(c) = 5 /\ AllIn(c, 1, 5, Digits)

\* the first position from p on that holds no white space (Len(s) + 1 if none)
SkipSpace(s, p) ==
    CHOOSE q \in p..(Len(s) + 1) :
        /\ AllIn(s, p, q - 1, WhiteSpace)
        /\ (q = Len(s) + 1 \/ s[q] \notin WhiteSpace)

\* the last position of the run of digits that holds position k
DigitRunEnd(s, k) ==
    CHOOSE e \in k..Len(s) :
        /\ AllIn(s, k, e, Digits)
        /\ (e = Len(s) \/ s[e + 1] \notin Digits)

RECURSIVE DecimalAcc(_, _)
DecimalAcc(ds, acc) ==
    IF ds = <<>> THEN acc
    ELSE DecimalAcc(Tail(ds), 10 * acc + DigitVal(Head(ds)))

Decimal(ds) == DecimalAcc(ds, 0)

\* the whole number whose first digit is at k
NumberAt(s, k) == Decimal(SubSeq(s, k, DigitRunEnd(s, k)))

Markers == {"x", "X", "×"}

\* a marker at j, then optional white space, then a number
MarkerWithNumberAt(s, j) ==
    /\ j >= 1 /\ j <= Len(s) /\ s[j] \in Markers
    /\ SkipSpace(s, j + 1) <= Len(s)
    /\ s[SkipSpace(s, j + 1)] \in Digits

NumberAfterMarker(s, j) == NumberAt(s, SkipSpace(s, j + 1))

\* a code at i, and anywhere later in the line a marker with a number
LaterCountForms(s) ==
    { ij \in (1..Len(s)) \X (1..Len(s)) :
        HasCodeAt(s, ij[1]) /\ ij[2] >= ij[1] + 5 /\ MarkerWithNumberAt(s, ij[2]) }

\* a code at i, then only white space up to a marker with a number
CountFormAt(s, i) ==
    HasCodeAt(s, i) /\ MarkerWithNumberAt(s, SkipSpace(s, i + 5))

FirstCountForm(s) ==
    CHOOSE i \in 1..Len(s) :
        CountFormAt(s, i) /\ \A h \in 1..(i - 1) : ~CountFormAt(s, h)

IsMinAt(s, q) ==
    /\ q + 2 <= Len(s)
    /\ s[q] \in {"m", "M"} /\ s[q + 1] \in {"i", "I"} /\ s[q + 2] \in {"n", "N"}

\* a code at i and, later in the line, a whole number starting at k that is
\* followed by optional white space and "min"
MinutesForms(s) ==
    { ik \in (1..Len(s)) \X (1..Len(s)) :
        /\ HasCodeAt(s, ik[1])
        /\ ik[2] > ik[1] + 5
        /\ s[ik[2]] \in Digits /\ s[ik[2] - 1] \notin Digits
        /\ IsMinAt(s, SkipSpace(s, DigitRunEnd(s, ik[2]) + 1)) }

\* the smallest u >= 0 with 15 * u >= m
UnitsCovering(m) ==
    CHOOSE u \in 0..m : UnitMinutes * u >= m /\ (u = 0 \/ UnitMinutes * (u - 1) < m)

\* The trimmed non-blank items of a text cut at the separators `seps`: an
\* item starts at the first character of a segment that is neither white
\* space nor a separator, and ends at the last such character of it.
SameSegment(text, seps, a, b) == \A k \in a..b : text[k] \notin seps

ItemStarts(text, seps) ==
    { i \in 1..Len(text) :
        /\ text[i] \notin WhiteSpace \cup seps
        /\ \A j \in 1..(i - 1) :
              text[j] \in WhiteSpace \cup seps \/ ~SameSegment(text, seps, j, i) }

ItemEnd(text, seps, i) ==
    CHOOSE e \in i..Len(text) :
        /\ text[e] \notin WhiteSpace \cup seps
        /\ SameSegment(text, seps, i, e)
        /\ \A k \in (e + 1)..Len(text) :
              text[k] \in WhiteSpace \cup seps \/ ~SameSegment(text, seps, e, k)

NthStart(starts, n) ==
    CHOOSE i \in starts : Cardinality({ j \in starts : j < i }) = n - 1

ItemsOf(text, seps) ==
    [n \in 1..Cardinality(ItemStarts(text, seps)) |->
        SubSeq(text, NthStart(ItemStarts(text, seps), n),
               ItemEnd(text, seps, NthStart(ItemStarts(text, seps), n)))]

RECURSIVE Dedup(_)
Dedup(items) ==
    IF items = <<>> THEN <<>>
    ELSE IF \E k \in 1..(Len(items) - 1) : items[k] = items[Len(items)]
         THEN Dedup(SubSeq(items, 1, Len(items) - 1))
         ELSE Dedup(SubSeq(items, 1, Len(items) - 1)) \o <<items[Len(items)]>>

\* the locals of the latest run of the Generate handler
Ran == ret # <<>>
Fields == ret[1].fields
Entries == ret[1].cptEntries
EntryIndexes == 1..Len(ret[1].cptEntries)

(***************************************************************************)
(* Properties                                                              *)
(***************************************************************************)

\* C1: a line with a 5-digit code followed later by a "<m> min" annotation,
\* which matches neither the explicit-count nor the units-keyword pattern,
\* yields units = ceil(m / 15) and minutes = units * 15, m being the whole
\* annotated number.
C1_MinutesAnnotation ==
    Ran =>
      \A n \in EntryIndexes :
        ( /\ MinutesForms(Entries[n].raw) # {}
          /\ RegExec(Pattern1, Entries[n].raw) = <<>>
          /\ RegExec(Pattern2, Entries[n].raw) = <<>> )
        => \E ik \in MinutesForms(Entries[n].raw) :
              /\ Entries[n].units = UnitsCovering(NumberAt(Entries[n].raw, ik[2]))
              /\ Entries[n].minutes = Entries[n].units * UnitMinutes

\* C2 as claimed: a 5-digit code followed anywhere later in the line by a
\* marker and an integer n yields that code with units = n, minutes = 15 n.
C2_MarkerAnywhereLater ==
    Ran =>
      \A n \in EntryIndexes :
        LaterCountForms(Entries[n].raw) # {}
        => \E ij \in LaterCountForms(Entries[n].raw) :
              /\ Entries[n].code = SubSeq(Entries[n].raw, ij[1], ij[1] + 4)
              /\ Entries[n].units = NumberAfterMarker(Entries[n].raw, ij[2])
              /\ Entries[n].minutes = UnitMinutes * Entries[n].units

\* C2 as amended: when five digits are followed, with nothing but optional
\* white space between, by a marker, optional white space and an integer n,
\* the entry holds the five digits of the leftmost such place, units = n and
\* minutes = 15 n.
C2_MarkerRightAfterCode ==
    Ran =>
      \A n \in EntryIndexes :
        (\E i \in 1..Len(Entries[n].raw) : CountFormAt(Entries[n].raw, i))
        => /\ Entries[n].code =
                SubSeq(Entries[n].raw, FirstCountForm(Entries[n].raw),
                       FirstCountForm(Entries[n].raw) + 4)
           /\ Entries[n].units =
                NumberAfterMarker(Entries[n].raw,
                    SkipSpace(Entries[n].raw, FirstCountForm(Entries[n].raw) + 5))
           /\ Entries[n].minutes = UnitMinutes * Entries[n].units

\* a line "1<code> x 20 ..." was parsed: the code starts at the second
\* character and the count has two digits
C2_Witness ==
    /\ Ran
    /\ \E n \in EntryIndexes :
          /\ CountFormAt(Entries[n].raw, 2)
          /\ Entries[n].units = 20
          /\ Len(Entries[n].raw) > 12

\* C3: an entry has units = 0 only if its line holds no 5-digit code (and
\* then its code is the whole line); a line with a 5-digit code yields
\* units >= 1 and is not rendered as unparsed.
C3_ZeroUnitsOnlyWithoutCode ==
    Ran =>
      \A n \in EntryIndexes :
        /\ Entries[n].units = 0
              => ~HasCode(Entries[n].raw) /\ Entries[n].code = Entries[n].raw
        /\ HasCode(Entries[n].raw)
              => /\ Entries[n].units >= 1
                 /\ CptSummaryLine(Entries[n]) # Entries[n].raw \o
                      <<" ", "(", "u", "n", "p", "a", "r", "s", "e", "d", ")">>

\* C4: parseCPT returns one entry per non-blank line of its input, in input
\* order, each with raw the trimmed line; a line without a 5-digit code
\* yields {code: the line, units: 0, minutes: 0} at its place, and the
\* lines around it are still interpreted.
C4_OneEntryPerLine ==
    Ran =>
      /\ Len(Entries) = Cardinality(ItemStarts(Fields.cptRaw, {"\n"}))
      /\ \A n \in EntryIndexes :
            /\ Entries[n].raw = ItemsOf(Fields.cptRaw, {"\n"})[n]
            /\ ~HasCode(Entries[n].raw)
                  => /\ Entries[n].code = Entries[n].raw
                     /\ Entries[n].units = 0
                     /\ Entries[n].minutes = 0
            /\ HasCode(Entries[n].raw) => IsCode(Entries[n].code)

\* three entries from a text with a blank line in it, the middle one from a
\* line without a code
C4_Witness ==
    /\ Ran
    /\ Len(Entries) = 3
    /\ Cardinality({ k \in 1..Len(Fields.cptRaw) : Fields.cptRaw[k] = "\n" }) >= 3
    /\ Entries[1].units = 2
    /\ Entries[2].units = 0 /\ Entries[2].code = <<"a", " ", "c">>
    /\ Entries[3].units = 1

RECURSIVE MinutesUpTo(_, _)
MinutesUpTo(entries, n) ==
    IF n = 0 THEN 0 ELSE MinutesUpTo(entries, n - 1) + entries[n].minutes

EntrySum == MinutesUpTo(ret[1].cptEntries, Len(ret[1].cptEntries))

\* the duration supplied, 0 when the field is empty
SuppliedDuration == IF ret[1].fields.duration = <<>> THEN 0 ELSE Decimal(ret[1].fields.duration)

\* C5: totalMinutes is the sum of the entries' minutes, except that a sum of
\* zero with a non-zero duration supplied gives that duration.
C5_TotalMinutes ==
    Ran =>
      ret[1].totalMinutes =
        IF EntrySum = 0 /\ SuppliedDuration # 0 THEN SuppliedDuration ELSE EntrySum

\* the fallback was taken: entries that sum to zero and a duration of 45
C5_Witness ==
    /\ Ran
    /\ Len(Entries) >= 1
    /\ EntrySum = 0
    /\ Fields.duration = <<"4", "5">>
    /\ ret[1].totalMinutes = 45

\* C6: totalUnits is the smallest u >= 0 with 15 u >= totalMinutes.
C6_TotalUnits ==
    Ran =>
      /\ ret[1].totalUnits >= 0
      /\ UnitMinutes * ret[1].totalUnits >= ret[1].totalMinutes
      /\ ret[1].totalUnits > 0
            => UnitMinutes * (ret[1].totalUnits - 1) < ret[1].totalMinutes

\* a remainder rounded up: the fallback duration 31 gives 3 units
C6_Witness ==
    /\ Ran
    /\ EntrySum = 0
    /\ ret[1].totalMinutes = 31
    /\ ret[1].totalUnits = 3

\* C7 as claimed: the ICD-10 list holds each distinct code of the input
\* once, in order of first occurrence, joined by ", ".
C7_IcdDeduplicated ==
    Ran => ret[1].icdPretty = Join(Dedup(ItemsOf(Fields.icd, IcdSeparators)), <<",", " ">>)

\* C7 as amended: the ICD-10 list holds every non-blank item of the input,
\* trimmed, in input order, joined by ", "; a code entered twice appears
\* twice.
C7_IcdEveryItemInOrder ==
    Ran => ret[1].icdPretty = Join(ItemsOf(Fields.icd, IcdSeparators), <<",", " ">>)

\* an input with the same code twice, on two lines with a space to trim
C7_Witness ==
    /\ Ran
    /\ Len(ItemsOf(Fields.icd, IcdSeparators)) = 2
    /\ Len(Dedup(ItemsOf(Fields.icd, IcdSeparators))) = 1
    /\ \E k \in 1..Len(Fields.icd) : Fields.icd[k] = "\n"
    /\ \E k \in 1..Len(Fields.icd) : Fields.icd[k] = " "
    /\ Len(ret[1].icdPretty) = 12

EmptyOrZero(d) == d = <<>> \/ Decimal(d) = 0

\* C8: a run of the Generate handler writes totalMinutes into the duration
\* field when the field was empty or zero and totalMinutes is not zero;
\* otherwise it leaves the field as it was; it changes no other input field.
C8_GenerateWritesOnlyDuration ==
    [][ lastOp' \in GenerateOps =>
          /\ (EmptyOrZero(els.duration) /\ ret'[1].totalMinutes # 0)
                => /\ els'.duration # <<>>
                   /\ Decimal(els'.duration) = ret'[1].totalMinutes
          /\ ~(EmptyOrZero(els.duration) /\ ret'[1].totalMinutes # 0)
                => els'.duration = els.duration
          /\ \A f \in InputFields \ {"duration"} : els'[f] = els[f] ]_vars

\* a Generate click found the duration field at "0" and left the total in it
C8_Witness ==
    /\ lastOp = "generate"
    /\ Fields.duration = <<"0">>
    /\ ret[1].totalMinutes = 15
    /\ els.duration = <<"1", "5">>

IsDurationPiece(p) == p.lit = "\nSession Duration (documented): "

\* the first of two runs wrote its total into the duration field
WroteBack == EmptyOrZero(ret[1].fields.duration) /\ ret[1].totalMinutes # 0

\* C9 as claimed: a second Generate click right after a run of the handler
\* leaves the same note, the same summary and the same totals.
C9_GenerateIdempotent ==
    [][ lastOp' = "generate_again" =>
          /\ output' = output
          /\ summary' = summary
          /\ ret'[1].totalMinutes = ret[1].totalMinutes
          /\ ret'[1].totalUnits = ret[1].totalUnits ]_vars

\* C9 as amended: the second click leaves the same summary and the same
\* totals; the note is the same too unless the first run wrote its total
\* into the duration field, and then the two notes differ in the Session
\* Duration line only.
C9_SecondClickKeepsTotals ==
    [][ lastOp' = "generate_again" =>
          /\ summary' = summary
          /\ ret'[1].totalMinutes = ret[1].totalMinutes
          /\ ret'[1].totalUnits = ret[1].totalUnits
          /\ ~WroteBack => output' = output
          /\ Len(output') = Len(output)
          /\ \A k \in 1..Len(output) :
                ~IsDurationPiece(output[k]) => output'[k] = output[k] ]_vars

\* the second click read the total the first one had written (no edit
\* enters "15"), and the note documents it
C9_Witness ==
    /\ lastOp = "generate_again"
    /\ Fields.duration = <<"1", "5">>
    /\ ret[1].totalMinutes = 15
    /\ \E k \in 1..Len(output) :
          IsDurationPiece(output[k]) /\ output[k].sub = <<"1", "5">>

\* C10 as claimed: when Print reaches window.print() the output surface is
\* not empty and holds the note of the form's field values at that moment.
C10_PrintedNoteIsCurrent ==
    lastOp \in PrintOps =>
      /\ ~IsBlank(output)
      /\ output = buildNote(gatherFields(els)).note

\* C10 as amended: when Print reaches window.print() the output surface is
\* not empty and holds the note of the field values gathered by the latest
\* run of the Generate handler.
C10_PrintedNoteIsLatestGenerated ==
    lastOp \in PrintOps =>
      /\ ~IsBlank(output)
      /\ Ran
      /\ output = buildNote(ret[1].fields).note

\* a note was printed that is not the note of the form as it stands
C10_Witness ==
    /\ lastOp = "print"
    /\ ~IsBlank(output)
    /\ output # buildNote(gatherFields(els)).note
    /\ gatherFields(els) # ret[1].fields

====
